---- MODULE Spec2Model ----
(***************************************************************************)
(* A model of package rrule (RFC 5545 recurrence expansion).               *)
(*                                                                         *)
(* An RRule value is validated (Validate), turned into an iterator by the  *)
(* per-frequency driver (setSecondly .. setYearly) and stepped with Next.  *)
(* Instants are Unix seconds; a location gives the UTC offset in effect at *)
(* an instant, and calendar fields are read in the location of Dtstart.    *)
(***************************************************************************)
EXTENDS Integers, Sequences, FiniteSets, TLC

(***************************************************************************)
(* Civil time (Go's package time, as the drivers use it).                  *)
(***************************************************************************)

\* time.Weekday: Sunday = 0 .. Saturday = 6.
Sunday == 0
Monday == 1
Tuesday == 2
Wednesday == 3
Thursday == 4
Friday == 5
Saturday == 6

SecondsPerMinute == 60
SecondsPerHour == 60 * SecondsPerMinute
SecondsPerDay == 24 * SecondsPerHour

\* Days since 1970-01-01 of the civil date (y, m, d), m in 1..12, any d.
\* yy is the year counted from March, mp the month counted from March.
DaysFromMarchYear(yy, mp, d) ==
    (yy \div 400) * 146097 + (yy % 400) * 365 + (yy % 400) \div 4 - (yy % 400) \div 100
      + (153 * mp + 2) \div 5 + d - 1 - 719468

DaysFromCivil(y, m, d) ==
    DaysFromMarchYear(IF m <= 2 THEN y - 1 ELSE y, IF m > 2 THEN m - 3 ELSE m + 9, d)

\* The civil date of a day number: [y, m, d].  doe is the day of the 400-year
\* era, yoe the year of the era, doy the day of the year from March 1, mp the
\* month from March.
CivilOfMonth(y0, doy, mp) ==
    [y |-> y0 + (IF mp < 10 THEN 0 ELSE 1),
     m |-> IF mp < 10 THEN mp + 3 ELSE mp - 9,
     d |-> doy - (153 * mp + 2) \div 5 + 1]

CivilOfYearDay(y0, doy) == CivilOfMonth(y0, doy, (5 * doy + 2) \div 153)

CivilOfEraYear(era, doe, yoe) ==
    CivilOfYearDay(yoe + era * 400, doe - (365 * yoe + yoe \div 4 - yoe \div 100))

CivilOfEraDay(era, doe) ==
    CivilOfEraYear(era, doe,
                   (doe - doe \div 1460 + doe \div 36524 - doe \div 146096) \div 365)

CivilFromDays(days) ==
    CivilOfEraDay((days + 719468) \div 146097, (days + 719468) % 146097)

IsLeap(y) == (y % 4 = 0) /\ ((y % 100 # 0) \/ (y % 400 = 0))

DaysInYear(y) == IF IsLeap(y) THEN 366 ELSE 365

DaysInMonth(y, m) ==
    IF m = 2 THEN (IF IsLeap(y) THEN 29 ELSE 28)
    ELSE IF m \in {4, 6, 9, 11} THEN 30 ELSE 31

\* time.Weekday of a day number (1970-01-01 was a Thursday).
WeekdayOf(day) == (day + 4) % 7

\* Locations.  UTC, and America/New_York (EDT, UTC-4, from the second Sunday
\* of March 07:00 UTC to the first Sunday of November 06:00 UTC; EST, UTC-5,
\* otherwise).
UTC == "UTC"
NewYorkLoc == "America/New_York"

\* The day number of the n-th Sunday on or after day number `first`.
NthSundayFrom(first, n) == first + ((7 - WeekdayOf(first)) % 7) + 7 * (n - 1)

DstStart(y) == NthSundayFrom(DaysFromCivil(y, 3, 1), 2) * SecondsPerDay + 7 * SecondsPerHour
DstEnd(y) == NthSundayFrom(DaysFromCivil(y, 11, 1), 1) * SecondsPerDay + 6 * SecondsPerHour

NewYorkOffset(abs, y) ==
    IF abs >= DstStart(y) /\ abs < DstEnd(y) THEN -4 * SecondsPerHour
    ELSE -5 * SecondsPerHour

\* The UTC offset in effect in loc at instant abs.
Offset(loc, abs) ==
    IF loc = UTC THEN 0
    ELSE NewYorkOffset(abs, CivilFromDays(abs \div SecondsPerDay).y)

\* The wall clock of instant abs in loc, as seconds since 1970-01-01T00:00:00
\* of that wall clock.
Wall(loc, abs) == abs + Offset(loc, abs)

\* The instant of a wall clock in loc.  A wall clock that a transition repeats
\* or skips is resolved as time.Date resolves it: by the offset in effect at
\* the instant guessed with the offset of the wall clock read as UTC.
FromWall(loc, unix) == unix - Offset(loc, unix - Offset(loc, unix))

\* time.Date: the instant of the civil time in loc.  Month, day, hour, minute
\* and second may lie outside their ranges and are normalised (October 32
\* is November 1).
Date(y, mo, d, h, mi, s, loc) ==
    FromWall(loc,
             (DaysFromCivil(y + (mo - 1) \div 12, ((mo - 1) % 12) + 1, 1) + d - 1)
                 * SecondsPerDay
               + h * SecondsPerHour + mi * SecondsPerMinute + s)

\* The calendar fields of a wall clock: day number, second of the day, date.
FieldsOfDay(day, sod, c) ==
    [y |-> c.y, m |-> c.m, d |-> c.d,
     h |-> sod \div SecondsPerHour,
     mi |-> (sod % SecondsPerHour) \div SecondsPerMinute,
     s |-> sod % SecondsPerMinute,
     wd |-> WeekdayOf(day),
     yd |-> day - DaysFromCivil(c.y, 1, 1) + 1,
     day |-> day]

FieldsOfWall(w) ==
    FieldsOfDay(w \div SecondsPerDay, w % SecondsPerDay, CivilFromDays(w \div SecondsPerDay))

\* The calendar fields of instant abs read in loc.
Fields(loc, abs) == FieldsOfWall(Wall(loc, abs))

\* time.Time.AddDate(years, months, days), on the fields f of the instant.
AddDateFields(loc, f, years, months, days) ==
    Date(f.y + years, f.m + months, f.d + days, f.h, f.mi, f.s, loc)

AddDate(loc, abs, years, months, days) ==
    AddDateFields(loc, Fields(loc, abs), years, months, days)

\* time.Time.Add(d), d in seconds.
Add(abs, d) == abs + d

\* time.Time{} (IsZero): a value below every instant of the model.
ZeroAbs == -(2 ^ 30)
ZeroTime == [abs |-> ZeroAbs, loc |-> UTC]
IsZero(t) == t.abs = ZeroAbs

(***************************************************************************)
(* Sequences.                                                              *)
(***************************************************************************)

SeqToSet(q) == {q[i] : i \in 1..Len(q)}

RECURSIVE InsertSorted(_, _)
InsertSorted(q, v) ==
    IF q = <<>> THEN <<v>>
    ELSE IF v < Head(q) THEN <<v>> \o q
    ELSE <<Head(q)>> \o InsertSorted(Tail(q), v)

\* sort.Ints: ascending, repeated values kept.
RECURSIVE SortInts(_)
SortInts(q) == IF q = <<>> THEN <<>> ELSE InsertSorted(SortInts(Tail(q)), Head(q))

Min(S) == CHOOSE v \in S : \A w \in S : v <= w

Max(S) == CHOOSE v \in S : \A w \in S : v >= w

\* The ascending sequence of the elements of S, all within lo..hi.
RECURSIVE SortRange(_, _, _)
SortRange(S, lo, hi) ==
    IF S = {} THEN <<>>
    ELSE IF lo = hi THEN <<lo>>
    ELSE LET mid == lo + (hi - lo) \div 2
         IN  SortRange({v \in S : v <= mid}, lo, mid)
               \o SortRange({v \in S : v > mid}, mid + 1, hi)

\* The ascending sequence of the elements of a set of instants.
SortSet(S) == IF S = {} THEN <<>> ELSE SortRange(S, Min(S), Max(S))

\* Go's % on ints: the result has the sign of the dividend.
GoRem(a, b) ==
    LET ab == IF b < 0 THEN -b ELSE b
    IN  IF a >= 0 THEN a % ab ELSE -((-a) % ab)

(***************************************************************************)
(* The pattern: type RRule, Frequency, InvalidBehavior.                    *)
(***************************************************************************)

Secondly == 0
Minutely == 1
Hourly == 2
Daily == 3
Weekly == 4
Monthly == 5
Yearly == 6

OmitInvalid == "OMIT"
NextInvalid == "FORWARD"
PrevInvalid == "BACKWARD"

\* QualifiedWeekday{N, WD}.
QWD(n, wd) == [N |-> n, WD |-> wd]

\* Some BYDAY entry has a numeric component (wd.N != 0).
hasOrdinal(rrule) == \E i \in 1..Len(rrule.ByWeekdays) : rrule.ByWeekdays[i].N # 0

\* Variants of single checks of Validate with the check left out; the
\* properties of Validate are checked to fail with them.
ordinalNeverChecked(rrule) == FALSE
countAndUntilNeverChecked(rrule) == FALSE

\* The checks of Validate, each TRUE when its error is due.
ordinalOutsideMonthlyYearly(rrule) ==
    rrule.Frequency # Yearly /\ rrule.Frequency # Monthly /\ hasOrdinal(rrule)

ordinalWithWeekNumbers(rrule) ==
    rrule.Frequency = Yearly /\ Len(rrule.ByWeekNumbers) > 0 /\ hasOrdinal(rrule)

weeklyWithMonthDays(rrule) == rrule.Frequency = Weekly /\ Len(rrule.ByMonthDays) > 0

setPosAlone(rrule) ==
    /\ Len(rrule.BySetPos) # 0
    /\ Len(rrule.BySeconds) = 0
    /\ Len(rrule.ByMinutes) = 0
    /\ Len(rrule.ByHours) = 0
    /\ Len(rrule.ByWeekdays) = 0
    /\ Len(rrule.ByMonthDays) = 0
    /\ Len(rrule.ByWeekNumbers) = 0
    /\ Len(rrule.ByMonths) = 0
    /\ Len(rrule.ByYearDays) = 0

countAndUntil(rrule) == rrule.Count # 0 /\ ~IsZero(rrule.Until)

setPosOutOfRange(rrule) ==
    \E i \in 1..Len(rrule.BySetPos) :
        rrule.BySetPos[i] = 0 \/ rrule.BySetPos[i] < -366 \/ rrule.BySetPos[i] > 366

ErrOrdinalFrequency ==
    "BYDAY entries may only specify a numeric component when the frequency is YEARLY or MONTHLY"
ErrOrdinalWeekNo ==
    "BYDAY entries must not specify a numeric component when the frequency is YEARLY and a BYWEEKNO rule is present"
ErrWeeklyMonthDay == "WEEKLY recurrences must not include BYMONTHDAY"
ErrSetPosAlone ==
    "BYSETPOS rules must be used in conjunction with at least one other BYXXX rule part"
ErrCountUntil == "COUNT and UNTIL must not appear in the same RRULE"
ErrSetPosRange == "BYSETPOS values must be between [-366,-1] or [1,366]"

\* (rrule RRule) Validate() error.  "nil" for a valid pattern.
Validate(rrule) ==
    IF ordinalOutsideMonthlyYearly(rrule) THEN ErrOrdinalFrequency
    ELSE IF ordinalWithWeekNumbers(rrule) THEN ErrOrdinalWeekNo
    ELSE IF weeklyWithMonthDays(rrule) THEN ErrWeeklyMonthDay
    ELSE IF setPosAlone(rrule) THEN ErrSetPosAlone
    ELSE IF countAndUntil(rrule) THEN ErrCountUntil
    ELSE IF setPosOutOfRange(rrule) THEN ErrSetPosRange
    ELSE "nil"

\* (rrule *RRule) weekStart().  WeekStart nil is modelled as -1.
NilWeekStart == -1
weekStart(rrule) == IF rrule.WeekStart = NilWeekStart THEN Monday ELSE rrule.WeekStart

(***************************************************************************)
(* BY-rule limiters: whether instant t, read in loc, satisfies one axis.   *)
(* An empty list accepts every instant; a negative month day, year day or  *)
(* week number counts from the end of the month or year.                   *)
(***************************************************************************)

\* The ISO 8601 year and week of the week whose Thursday is day number thu.
ISOWeekOfThursday(thu, y) ==
    [year |-> y, week |-> (thu - DaysFromCivil(y, 1, 1)) \div 7 + 1]

\* time.Time.ISOWeek, of a day number.
ISOWeek(day) ==
    ISOWeekOfThursday(day - ((WeekdayOf(day) + 6) % 7) + 3,
                      CivilFromDays(day - ((WeekdayOf(day) + 6) % 7) + 3).y)

WeeksInISOYear(y) == ISOWeek(DaysFromCivil(y, 12, 28)).week

validSecond(loc, list, t) ==
    Len(list) = 0 \/ Fields(loc, t).s \in SeqToSet(list)

validMinute(loc, list, t) ==
    Len(list) = 0 \/ Fields(loc, t).mi \in SeqToSet(list)

validHour(loc, list, t) ==
    Len(list) = 0 \/ Fields(loc, t).h \in SeqToSet(list)

validWeekday(loc, list, t) ==
    Len(list) = 0 \/ Fields(loc, t).wd \in {list[i].WD : i \in 1..Len(list)}

validMonthDay(loc, list, t) ==
    LET ok(f) == \/ f.d \in SeqToSet(list)
                 \/ f.d - DaysInMonth(f.y, f.m) - 1 \in SeqToSet(list)
    IN  Len(list) = 0 \/ ok(Fields(loc, t))

validMonth(loc, list, t) ==
    Len(list) = 0 \/ Fields(loc, t).m \in SeqToSet(list)

validWeek(loc, list, t) ==
    LET ok(w) == \/ w.week \in SeqToSet(list)
                 \/ w.week - WeeksInISOYear(w.year) - 1 \in SeqToSet(list)
    IN  Len(list) = 0 \/ ok(ISOWeek(Wall(loc, t) \div SecondsPerDay))

validYearDay(loc, list, t) ==
    LET ok(f) == \/ f.yd \in SeqToSet(list)
                 \/ f.yd - DaysInYear(f.y) - 1 \in SeqToSet(list)
    IN  Len(list) = 0 \/ ok(Fields(loc, t))

(***************************************************************************)
(* BY-rule expanders: from a batch (a set of instants) to the batch with   *)
(* the field replaced by each listed value.  A batch is kept as a set: the *)
(* kernel reads it in ascending order, without duplicates.                 *)
(***************************************************************************)

\* The instant with the time of day of fields f on the date c.
OnDate(loc, f, c) == Date(c.y, c.m, c.d, f.h, f.mi, f.s, loc)

\* The instants with the time of day of instant t on each day number of days.
OnDays(loc, t, days) == {OnDate(loc, Fields(loc, t), CivilFromDays(d)) : d \in days}

\* by_seconds and by_minutes move the instant by the difference of the field,
\* so an instant in a repeated wall-clock hour keeps its UTC offset (the
\* corpus's "half-hourly daylight savings", src/unnamed/part_000:290-300).
expandBySeconds(loc, tt, list) ==
    IF Len(list) = 0 THEN tt
    ELSE {Add(t, s - Fields(loc, t).s) : t \in tt, s \in SeqToSet(list)}

expandByMinutes(loc, tt, list) ==
    IF Len(list) = 0 THEN tt
    ELSE {Add(t, (mi - Fields(loc, t).mi) * SecondsPerMinute) :
            t \in tt, mi \in SeqToSet(list)}

expandByHours(loc, tt, list) ==
    LET cand(f, h) == Date(f.y, f.m, f.d, h, f.mi, f.s, loc)
    IN  IF Len(list) = 0 THEN tt
        ELSE {cand(Fields(loc, t), h) : t \in tt, h \in SeqToSet(list)}

\* A listed day, counted from the end of a period of len days when negative.
ResolveDay(d, len) == IF d < 0 THEN len + d + 1 ELSE d

\* by_month_days.  The driver passes no invalid-date policy to this expander
\* (src/rrule.go:409, 556): a day the month lacks yields no candidate.
expandByMonthDays(loc, tt, list) ==
    LET place(f, len, day) ==
            IF day < 1 \/ day > len THEN {}
            ELSE {Date(f.y, f.m, day, f.h, f.mi, f.s, loc)}
        cand(f, d) ==
            place(f, DaysInMonth(f.y, f.m), ResolveDay(d, DaysInMonth(f.y, f.m)))
    IN  IF Len(list) = 0 THEN tt
        ELSE UNION {cand(Fields(loc, t), d) : t \in tt, d \in SeqToSet(list)}

\* A by_year_days that drops a day the year lacks under every policy; the
\* policies of day 366 are checked to fail with it.
expandByYearDaysDropping(loc, tt, ib, list) ==
    LET place(f, len, day) ==
            IF day >= 1 /\ day <= len THEN {Date(f.y, 1, day, f.h, f.mi, f.s, loc)}
            ELSE {}
        cand(f, d) == place(f, DaysInYear(f.y), ResolveDay(d, DaysInYear(f.y)))
    IN  IF Len(list) = 0 THEN tt
        ELSE UNION {cand(Fields(loc, t), d) : t \in tt, d \in SeqToSet(list)}

\* by_year_days.  Day 366 of a year of 365 days goes by the policy: OMIT
\* drops it, ROLL_FORWARD gives January 1 of the next year, ROLL_BACKWARD
\* December 31 of the same year.
expandByYearDays(loc, tt, ib, list) ==
    LET place(f, len, day) ==
            IF day >= 1 /\ day <= len THEN {Date(f.y, 1, day, f.h, f.mi, f.s, loc)}
            ELSE IF ib = NextInvalid
              THEN {Date(f.y, 1, IF day > len THEN len + 1 ELSE 1, f.h, f.mi, f.s, loc)}
            ELSE IF ib = PrevInvalid
              THEN {Date(f.y, 1, IF day > len THEN len ELSE 0, f.h, f.mi, f.s, loc)}
            ELSE {}
        cand(f, d) == place(f, DaysInYear(f.y), ResolveDay(d, DaysInYear(f.y)))
    IN  IF Len(list) = 0 THEN tt
        ELSE UNION {cand(Fields(loc, t), d) : t \in tt, d \in SeqToSet(list)}

\* by_months.  A day the target month lacks goes by the policy: OMIT drops
\* it, ROLL_FORWARD lets the date run over into the next month, ROLL_BACKWARD
\* gives the last day of the target month.
expandByMonths(loc, tt, ib, list) ==
    LET cand(f, m) ==
            IF f.d <= DaysInMonth(f.y, m) \/ ib = NextInvalid
              THEN {Date(f.y, m, f.d, f.h, f.mi, f.s, loc)}
            ELSE IF ib = PrevInvalid
              THEN {Date(f.y, m, DaysInMonth(f.y, m), f.h, f.mi, f.s, loc)}
            ELSE {}
    IN  IF Len(list) = 0 THEN tt
        ELSE UNION {cand(Fields(loc, t), m) : t \in tt, m \in SeqToSet(list)}

\* The n-th (from 1) element of a set of numbers in ascending order.
NthSmallest(S, n) == CHOOSE v \in S : Cardinality({w \in S : w < v}) = n - 1

\* The day numbers in first..last that a qualified weekday names: every such
\* weekday for N = 0, the N-th from the start for N > 0, the |N|-th from
\* the end for N < 0; none when the period has no such occurrence.
WeekdaysInRange(first, last, q) ==
    LET pickFrom(all, k) ==
            IF q.N = 0 THEN all
            ELSE IF q.N > 0 /\ q.N <= k THEN {NthSmallest(all, q.N)}
            ELSE IF q.N < 0 /\ -q.N <= k THEN {NthSmallest(all, k + q.N + 1)}
            ELSE {}
    IN  pickFrom({d \in first..last : WeekdayOf(d) = q.WD},
                 Cardinality({d \in first..last : WeekdayOf(d) = q.WD}))

\* limitBySetPos: positions are 1-indexed into the ascending batch, negative
\* positions count from its end, a position beyond the batch selects nothing.
limitBySetPos(tt, setpos) ==
    LET pick(p, n) == IF p > 0 /\ p <= n THEN {NthSmallest(tt, p)}
                      ELSE IF p < 0 /\ -p <= n THEN {NthSmallest(tt, n + p + 1)}
                      ELSE {}
    IN  IF Len(setpos) = 0 THEN tt
        ELSE UNION {pick(p, Cardinality(tt)) : p \in SeqToSet(setpos)}

\* by_weekdays_in_month, with the positions the MONTHLY driver hands it.
expandMonthByWeekdays(loc, tt, ib, setpos, list) ==
    LET days(f, first, q) ==
            WeekdaysInRange(first, first + DaysInMonth(f.y, f.m) - 1, q)
        monthOf(f, q) == days(f, DaysFromCivil(f.y, f.m, 1), q)
    IN  IF Len(list) = 0 THEN tt
        ELSE limitBySetPos(
               UNION {OnDays(loc, t, monthOf(Fields(loc, t), list[i])) :
                        t \in tt, i \in 1..Len(list)},
               setpos)

\* by_weekdays_in_year.
expandYearByWeekdays(loc, tt, ib, list) ==
    LET days(y, first, q) == WeekdaysInRange(first, first + DaysInYear(y) - 1, q)
        yearOf(y, q) == days(y, DaysFromCivil(y, 1, 1), q)
    IN  IF Len(list) = 0 THEN tt
        ELSE UNION {OnDays(loc, t, yearOf(Fields(loc, t).y, list[i])) :
                      t \in tt, i \in 1..Len(list)}

\* The day number on which the week of day number `day` starts, weeks
\* starting on wkst.
WeekStartDay(day, wkst) == day - ((WeekdayOf(day) - wkst + 7) % 7)

\* by_weekdays_in_week: each listed weekday's date in the week of the instant
\* that starts on wkst.
expandByWeekdays(loc, tt, wkst, list) ==
    LET dayOf(first, q) == first + ((q.WD - wkst + 7) % 7)
        days(t) == {dayOf(WeekStartDay(Wall(loc, t) \div SecondsPerDay, wkst), list[i]) :
                      i \in 1..Len(list)}
    IN  IF Len(list) = 0 THEN tt
        ELSE UNION {OnDays(loc, t, days(t)) : t \in tt}

\* The weekdays of the BYDAY entries without a numeric component.
plainWeekdays(list) == {list[i].WD : i \in {j \in 1..Len(list) : list[j].N = 0}}

\* The day number on which week 1 of the year starting on day number jan1
\* starts: the first week starting on wkst with at least four days in it.
FirstWeekStart(jan1, wkst) ==
    IF jan1 - WeekStartDay(jan1, wkst) <= 3 THEN WeekStartDay(jan1, wkst)
    ELSE WeekStartDay(jan1, wkst) + 7

\* by_week_numbers: the days of each listed week of the instant's year, kept
\* to the plain BYDAY weekdays when there are any; a week number the year
\* lacks yields no candidate.
expandByWeekNumbers(loc, tt, ib, wkst, plainByDay, list) ==
    LET week(first) ==
            {d \in first..(first + 6) : plainByDay = {} \/ WeekdayOf(d) \in plainByDay}
        place(w1, n, wk) == IF wk < 1 \/ wk > n THEN {} ELSE week(w1 + 7 * (wk - 1))
        inYear(w1, n, w) == place(w1, n, ResolveDay(w, n))
        days(y, w) ==
            inYear(FirstWeekStart(DaysFromCivil(y, 1, 1), wkst),
                   (FirstWeekStart(DaysFromCivil(y + 1, 1, 1), wkst)
                      - FirstWeekStart(DaysFromCivil(y, 1, 1), wkst)) \div 7,
                   w)
    IN  IF Len(list) = 0 THEN tt
        ELSE UNION {OnDays(loc, t, days(Fields(loc, t).y, w)) :
                      t \in tt, w \in SeqToSet(list)}

(***************************************************************************)
(* The per-frequency drivers.  set<Freq>(rrule) is the iterator as built;  *)
(* <freq>Next is its next closure, a step of the captured cursor that      *)
(* returns the pivot; <freq>Valid its valid closure; <freq>Variations its  *)
(* variations closure.                                                     *)
(***************************************************************************)

\* The horizon of the model's calendar, standing for the largest instant the
\* time representation holds.
HorizonYear == 2030
absoluteMaxTime == Date(HorizonYear, 12, 31, 23, 59, 59, UTC)

\* A timeOrMax that forgets Until; the Until bound is checked to fail with it.
timeOrMaxIgnoringUntil(t) == absoluteMaxTime

timeOrMax(t) == IF IsZero(t) THEN absoluteMaxTime ELSE t.abs

\* start := rrule.Dtstart, and the location its calendar fields are read in.
startOf(rrule) == rrule.Dtstart.abs
locOf(rrule) == rrule.Dtstart.loc

\* interval := 1; if rrule.Interval != 0 { interval = rrule.Interval }
intervalOf(rrule) == IF rrule.Interval # 0 THEN rrule.Interval ELSE 1

\* The fields every driver sets alike, the kernel's own fields at their zero
\* values, and the closures' captured cursor.
\* Variants that leave minTime unset and the cap at 0; the anchor bound and
\* the Count cap are checked to fail with them.
minTimeUnset(rrule) == ZeroAbs

minTimeOf(rrule) == startOf(rrule)

newIteratorUncapped(rrule) ==
    [minTime     |-> minTimeOf(rrule),
     maxTime     |-> timeOrMax(rrule.Until),
     queueCap    |-> 0,
     setpos      |-> rrule.BySetPos,
     current     |-> startOf(rrule),
     loopIdx     |-> 0,
     afterFirst  |-> FALSE,
     queue       |-> <<>>,
     emitted     |-> 0,
     terminated  |-> FALSE]

newIterator(rrule) ==
    [minTime     |-> minTimeOf(rrule),
     maxTime     |-> timeOrMax(rrule.Until),
     queueCap    |-> rrule.Count,
     setpos      |-> rrule.BySetPos,
     current     |-> startOf(rrule),
     loopIdx     |-> 0,
     afterFirst  |-> FALSE,
     queue       |-> <<>>,
     emitted     |-> 0,
     terminated  |-> FALSE]

\* ---- SECONDLY ----

\* The BySeconds short cut is taken.
secondlyFast(rrule) == intervalOf(rrule) = 1 /\ Len(rrule.BySeconds) > 0

\* seconds: BySeconds with negative values wrapped, sorted.
secondsOf(rrule) ==
    SortInts([i \in 1..Len(rrule.BySeconds) |->
                IF rrule.BySeconds[i] < 0 THEN rrule.BySeconds[i] + 60
                ELSE rrule.BySeconds[i]])

\* The pattern as building an iterator would leave it had the short cut
\* sorted BySeconds itself; the frame of Iterator is checked to fail with it.
patternWithSecondsSorted(rrule) == [rrule EXCEPT !.BySeconds = secondsOf(rrule)]

\* The caller's pattern after an iterator was built from it.  The drivers
\* take the RRule by value and write to none of its slices: the short cut
\* copies BySeconds element by element into a slice of its own and sorts
\* that one.
patternAfterIterator(rrule) == rrule

initialSecond(rrule) == Fields(locOf(rrule), startOf(rrule)).s

\* The indexes (from 1) of the seconds after the start's second.
pastInitial(rrule) ==
    {i \in 1..Len(secondsOf(rrule)) : secondsOf(rrule)[i] > initialSecond(rrule)}

\* loopIdx after the set-up loop (an index from 0, as in the code).
initialLoopIdx(rrule) ==
    IF pastInitial(rrule) = {} THEN 0 ELSE Min(pastInitial(rrule)) - 1

firstDiff(rrule) ==
    IF pastInitial(rrule) = {}
      THEN secondsOf(rrule)[1] + 60 - initialSecond(rrule)
    ELSE secondsOf(rrule)[Min(pastInitial(rrule))] - initialSecond(rrule)

\* secondsLooper: from each second to the next listed one, the last wrapping.
secondsLooper(rrule) ==
    LET sec == secondsOf(rrule)
        n   == Len(sec)
    IN  [i \in 1..n |-> IF i = n THEN 60 + sec[1] - sec[i] ELSE sec[i + 1] - sec[i]]

setSecondly(rrule) ==
    IF secondlyFast(rrule)
      THEN [newIterator(rrule) EXCEPT !.loopIdx = initialLoopIdx(rrule)]
    ELSE newIterator(rrule)

secondlyNext(rrule, it) ==
    IF ~secondlyFast(rrule)
      THEN [ret |-> it.current,
            it  |-> [it EXCEPT !.current = Add(it.current, intervalOf(rrule))]]
    ELSE IF it.afterFirst
      THEN [ret |-> it.current,
            it  |-> [it EXCEPT
                       !.current = Add(it.current, secondsLooper(rrule)[it.loopIdx + 1]),
                       !.loopIdx = IF it.loopIdx + 1 >= Len(secondsLooper(rrule))
                                     THEN 0 ELSE it.loopIdx + 1]]
    ELSE [ret |-> it.current,
          it  |-> [it EXCEPT !.current = Add(it.current, firstDiff(rrule)),
                             !.afterFirst = TRUE]]

secondlyValid(rrule, t) ==
    LET loc == locOf(rrule)
    IN  /\ validSecond(loc, rrule.BySeconds, t)
        /\ validMinute(loc, rrule.ByMinutes, t)
        /\ validHour(loc, rrule.ByHours, t)
        /\ validWeekday(loc, rrule.ByWeekdays, t)
        /\ validMonthDay(loc, rrule.ByMonthDays, t)
        /\ validMonth(loc, rrule.ByMonths, t)
        /\ validWeek(loc, rrule.ByWeekNumbers, t)
        /\ validYearDay(loc, rrule.ByYearDays, t)

secondlyVariations(rrule, t) == {t}

\* ---- MINUTELY ----

setMinutely(rrule) == newIterator(rrule)

minutelyNext(rrule, it) ==
    [ret |-> it.current,
     it  |-> [it EXCEPT !.current = Add(it.current, intervalOf(rrule) * SecondsPerMinute)]]

minutelyValid(rrule, t) ==
    LET loc == locOf(rrule)
    IN  /\ validMonth(loc, rrule.ByMonths, t)
        /\ validWeek(loc, rrule.ByWeekNumbers, t)
        /\ validYearDay(loc, rrule.ByYearDays, t)
        /\ validMonthDay(loc, rrule.ByMonthDays, t)
        /\ validWeekday(loc, rrule.ByWeekdays, t)
        /\ validHour(loc, rrule.ByHours, t)
        /\ validMinute(loc, rrule.ByMinutes, t)

minutelyVariations(rrule, t) ==
    limitBySetPos(expandBySeconds(locOf(rrule), {t}, rrule.BySeconds), rrule.BySetPos)

\* ---- HOURLY ----

setHourly(rrule) == newIterator(rrule)

hourlyNext(rrule, it) ==
    [ret |-> it.current,
     it  |-> [it EXCEPT !.current = Add(it.current, intervalOf(rrule) * SecondsPerHour)]]

hourlyValid(rrule, t) ==
    LET loc == locOf(rrule)
    IN  /\ validMonth(loc, rrule.ByMonths, t)
        /\ validWeek(loc, rrule.ByWeekNumbers, t)
        /\ validYearDay(loc, rrule.ByYearDays, t)
        /\ validMonthDay(loc, rrule.ByMonthDays, t)
        /\ validWeekday(loc, rrule.ByWeekdays, t)
        /\ validHour(loc, rrule.ByHours, t)

hourlyVariations(rrule, t) ==
    LET loc == locOf(rrule)
        t1  == expandByMinutes(loc, {t}, rrule.ByMinutes)
        t2  == expandBySeconds(loc, t1, rrule.BySeconds)
    IN  limitBySetPos(t2, rrule.BySetPos)

\* ---- DAILY ----

setDaily(rrule) == newIterator(rrule)

dailyNext(rrule, it) ==
    [ret |-> it.current,
     it  |-> [it EXCEPT !.current = AddDate(locOf(rrule), it.current, 0, 0, intervalOf(rrule))]]

\* A DAILY valid closure that checks the month only; the limiter property is
\* checked to fail with it.
dailyValidMonthOnly(rrule, t) == validMonth(locOf(rrule), rrule.ByMonths, t)

dailyValid(rrule, t) ==
    LET loc == locOf(rrule)
    IN  /\ validMonth(loc, rrule.ByMonths, t)
        /\ validMonthDay(loc, rrule.ByMonthDays, t)
        /\ validWeekday(loc, rrule.ByWeekdays, t)

dailyVariations(rrule, t) ==
    LET loc == locOf(rrule)
        t1  == expandBySeconds(loc, {t}, rrule.BySeconds)
        t2  == expandByMinutes(loc, t1, rrule.ByMinutes)
        t3  == expandByHours(loc, t2, rrule.ByHours)
    IN  limitBySetPos(t3, rrule.BySetPos)

\* ---- WEEKLY ----

setWeekly(rrule) == newIterator(rrule)

weeklyNext(rrule, it) ==
    [ret |-> it.current,
     it  |-> [it EXCEPT
                !.current = AddDate(locOf(rrule), it.current, 0, 0, intervalOf(rrule) * 7)]]

weeklyValid(rrule, t) == validMonth(locOf(rrule), rrule.ByMonths, t)

weeklyVariations(rrule, t) ==
    LET loc == locOf(rrule)
        t1  == expandBySeconds(loc, {t}, rrule.BySeconds)
        t2  == expandByMinutes(loc, t1, rrule.ByMinutes)
        t3  == expandByHours(loc, t2, rrule.ByHours)
        t4  == limitBySetPos(t3, rrule.BySetPos)
    IN  expandByWeekdays(loc, t4, weekStart(rrule), rrule.ByWeekdays)

\* ---- MONTHLY ----

\* The months from the month of fields fa to the month of fields fb.
monthsBetween(fa, fb) == (fb.y - fa.y) * 12 + (fb.m - fa.m)

monthDiff(loc, a, b) == monthsBetween(Fields(loc, a), Fields(loc, b))

checkLeapDay(rrule) == Fields(locOf(rrule), startOf(rrule)).d >= 29

setMonthly(rrule) == newIterator(rrule)

\* case OmitInvalid: the loop over mult, entered with diff % interval != 0;
\* cur is ret.AddDate(0, interval*mult, 0) for the mult reached.
RECURSIVE omitAdvance(_, _, _, _)
omitAdvance(rrule, ret, mult, cur) ==
    IF GoRem(monthDiff(locOf(rrule), ret, cur), intervalOf(rrule)) # 0
      THEN omitAdvance(rrule, ret, mult + 1,
                       AddDate(locOf(rrule), ret, 0, intervalOf(rrule) * (mult + 1), 0))
    ELSE cur

\* The cursor after one step from ret, naive being ret.AddDate(0, interval, 0).
monthlyResolve(rrule, ret, naive) ==
    IF /\ checkLeapDay(rrule)
       /\ GoRem(monthDiff(locOf(rrule), ret, naive), intervalOf(rrule)) # 0
      THEN CASE rrule.InvalidBehavior = PrevInvalid ->
                  AddDate(locOf(rrule), naive, 0, 0, -1)
             [] rrule.InvalidBehavior = NextInvalid -> naive
             [] rrule.InvalidBehavior = OmitInvalid -> omitAdvance(rrule, ret, 1, naive)
    ELSE naive

monthlyAdvance(rrule, ret) ==
    monthlyResolve(rrule, ret, AddDate(locOf(rrule), ret, 0, intervalOf(rrule), 0))

monthlyNext(rrule, it) ==
    [ret |-> it.current,
     it  |-> [it EXCEPT !.current = monthlyAdvance(rrule, it.current)]]

monthlyValid(rrule, t) ==
    LET loc == locOf(rrule)
    IN  IF Len(rrule.ByMonthDays) > 0
          THEN /\ validMonth(loc, rrule.ByMonths, t)
               /\ validWeekday(loc, rrule.ByWeekdays, t)
        ELSE validMonth(loc, rrule.ByMonths, t)

\* A day expansion that drops the days before the anchor first and picks the
\* positions among what is left; the order of selection and lower bound is
\* checked to fail with it.
monthlyDaysFromAnchor(rrule, loc, t3) ==
    IF Len(rrule.ByMonthDays) > 0
      THEN expandByMonthDays(loc, t3, rrule.ByMonthDays)
    ELSE IF Len(rrule.ByWeekdays) > 0
      THEN limitBySetPos(
             {c \in expandMonthByWeekdays(loc, t3, rrule.InvalidBehavior, <<>>,
                                          rrule.ByWeekdays) : c >= startOf(rrule)},
             rrule.BySetPos)
    ELSE t3

\* The day expansion of the batch t3 of times of day.
monthlyDays(rrule, loc, t3) ==
    IF Len(rrule.ByMonthDays) > 0
      THEN expandByMonthDays(loc, t3, rrule.ByMonthDays)
    ELSE IF Len(rrule.ByWeekdays) > 0
      THEN expandMonthByWeekdays(loc, t3, rrule.InvalidBehavior, rrule.BySetPos,
                                 rrule.ByWeekdays)
    ELSE t3

monthlyVariations(rrule, t) ==
    LET loc == locOf(rrule)
        t1  == expandBySeconds(loc, {t}, rrule.BySeconds)
        t2  == expandByMinutes(loc, t1, rrule.ByMinutes)
        t3  == expandByHours(loc, t2, rrule.ByHours)
    IN  monthlyDays(rrule, loc, t3)

\* ---- YEARLY ----

setYearly(rrule) == newIterator(rrule)

yearlyNext(rrule, it) ==
    [ret |-> it.current,
     it  |-> [it EXCEPT !.current = AddDate(locOf(rrule), it.current, intervalOf(rrule), 0, 0)]]

yearlyValid(rrule, t) ==
    LET loc == locOf(rrule)
    IN  IF Len(rrule.ByYearDays) > 0 \/ Len(rrule.ByMonthDays) > 0
          THEN /\ validMonth(loc, rrule.ByMonths, t)
               /\ validWeekday(loc, rrule.ByWeekdays, t)
        ELSE validMonth(loc, rrule.ByMonths, t)

\* The weekday expansion of the batch t6 (note 2 of RFC 5545, page 44).
\* A weekday expansion that takes the whole year as its scope whatever other
\* BY-rules are set; the branching of note 2 is checked to fail with it.
yearlyWeekdaysAlwaysInYear(rrule, loc, ib, t6) ==
    expandYearByWeekdays(loc, t6, ib, rrule.ByWeekdays)

yearlyWeekdays(rrule, loc, ib, t6) ==
    IF Len(rrule.ByYearDays) = 0 /\ Len(rrule.ByMonthDays) = 0
      THEN IF Len(rrule.ByMonths) # 0
             THEN expandMonthByWeekdays(loc, t6, ib, <<>>, rrule.ByWeekdays)
           ELSE IF Len(rrule.ByWeekNumbers) # 0
             THEN expandByWeekNumbers(loc, t6, ib, weekStart(rrule),
                                      plainWeekdays(rrule.ByWeekdays), rrule.ByWeekNumbers)
           ELSE expandYearByWeekdays(loc, t6, ib, rrule.ByWeekdays)
    ELSE t6

yearlyVariations(rrule, t) ==
    LET loc == locOf(rrule)
        ib  == rrule.InvalidBehavior
        t1  == expandBySeconds(loc, {t}, rrule.BySeconds)
        t2  == expandByMinutes(loc, t1, rrule.ByMinutes)
        t3  == expandByHours(loc, t2, rrule.ByHours)
        t4  == expandByMonthDays(loc, t3, rrule.ByMonthDays)
        t5  == expandByYearDays(loc, t4, ib, rrule.ByYearDays)
        t6  == expandByMonths(loc, t5, ib, rrule.ByMonths)
        t7  == yearlyWeekdays(rrule, loc, ib, t6)
    IN  limitBySetPos(t7, rrule.BySetPos)

\* ---- (rrule RRule) Iterator(): the switch on the frequency ----

KnownFrequency(f) == f \in {Secondly, Minutely, Hourly, Daily, Weekly, Monthly, Yearly}

\* An Iterator that skips Validate; the panic on an invalid pattern is
\* checked to fail with it.
panicsOnUnknownFrequencyOnly(rrule) == ~KnownFrequency(rrule.Frequency)

\* Iterator panics: Validate returned an error, or the switch fell to default.
iteratorPanics(rrule) == Validate(rrule) # "nil" \/ ~KnownFrequency(rrule.Frequency)

buildIterator(rrule) ==
    CASE rrule.Frequency = Secondly -> setSecondly(rrule)
      [] rrule.Frequency = Minutely -> setMinutely(rrule)
      [] rrule.Frequency = Hourly   -> setHourly(rrule)
      [] rrule.Frequency = Daily    -> setDaily(rrule)
      [] rrule.Frequency = Weekly   -> setWeekly(rrule)
      [] rrule.Frequency = Monthly  -> setMonthly(rrule)
      [] rrule.Frequency = Yearly   -> setYearly(rrule)

\* i.next(), i.valid(t), i.variations(t): the closures of the built iterator.
callNext(rrule, it) ==
    CASE rrule.Frequency = Secondly -> secondlyNext(rrule, it)
      [] rrule.Frequency = Minutely -> minutelyNext(rrule, it)
      [] rrule.Frequency = Hourly   -> hourlyNext(rrule, it)
      [] rrule.Frequency = Daily    -> dailyNext(rrule, it)
      [] rrule.Frequency = Weekly   -> weeklyNext(rrule, it)
      [] rrule.Frequency = Monthly  -> monthlyNext(rrule, it)
      [] rrule.Frequency = Yearly   -> yearlyNext(rrule, it)

callValid(rrule, t) ==
    CASE rrule.Frequency = Secondly -> secondlyValid(rrule, t)
      [] rrule.Frequency = Minutely -> minutelyValid(rrule, t)
      [] rrule.Frequency = Hourly   -> hourlyValid(rrule, t)
      [] rrule.Frequency = Daily    -> dailyValid(rrule, t)
      [] rrule.Frequency = Weekly   -> weeklyValid(rrule, t)
      [] rrule.Frequency = Monthly  -> monthlyValid(rrule, t)
      [] rrule.Frequency = Yearly   -> yearlyValid(rrule, t)

callVariations(rrule, t) ==
    CASE rrule.Frequency = Secondly -> secondlyVariations(rrule, t)
      [] rrule.Frequency = Minutely -> minutelyVariations(rrule, t)
      [] rrule.Frequency = Hourly   -> hourlyVariations(rrule, t)
      [] rrule.Frequency = Daily    -> dailyVariations(rrule, t)
      [] rrule.Frequency = Weekly   -> weeklyVariations(rrule, t)
      [] rrule.Frequency = Monthly  -> monthlyVariations(rrule, t)
      [] rrule.Frequency = Yearly   -> yearlyVariations(rrule, t)

(***************************************************************************)
(* The iterator kernel.  One call of Next yields the head of the pending   *)
(* queue, or pulls pivots from the driver until the queue fills or the     *)
(* iteration ends.  BYSETPOS is applied by the driver's variations         *)
(* closure, so the kernel does not apply it a second time.                 *)
(***************************************************************************)

\* Count emissions have been produced.
countReached(it) == it.queueCap > 0 /\ it.emitted >= it.queueCap

\* The candidates of one pivot that pass the limiters and the two bounds,
\* in ascending order without duplicates.
survivors(rrule, it, pivot) ==
    SortSet({c \in callVariations(rrule, pivot) :
               /\ callValid(rrule, c)
               /\ c >= it.minTime
               /\ c <= it.maxTime})

\* The queue is empty: advance to the next pivot and queue its batch, or end
\* when the pivot lies beyond maxTime.  r is what the next closure gave: the
\* pivot and the iterator with the cursor moved.
kernelFill(rrule, it, r) ==
    IF r.ret > it.maxTime THEN [r.it EXCEPT !.terminated = TRUE]
    ELSE [r.it EXCEPT !.queue = survivors(rrule, it, r.ret)]

kernelAdvance(rrule, it) == kernelFill(rrule, it, callNext(rrule, it))

\* The queue is not empty: the instant to yield.
kernelYields(it) == ~countReached(it) /\ Head(it.queue) <= it.maxTime

kernelPop(it) ==
    IF kernelYields(it)
      THEN [it EXCEPT !.queue = Tail(it.queue), !.emitted = it.emitted + 1]
    ELSE [it EXCEPT !.terminated = TRUE]

\* One step of the kernel on an iterator and the instants it has returned so
\* far: yield the head of the queue, pull a pivot, or end; st is
\* [it |-> the iterator, out |-> the instants returned].
iteratorStep(rrule, st) ==
    IF st.it.terminated THEN st
    ELSE IF st.it.queue # <<>>
      THEN [it  |-> kernelPop(st.it),
            out |-> IF kernelYields(st.it) THEN Append(st.out, Head(st.it.queue))
                    ELSE st.out]
    ELSE IF countReached(st.it) THEN [st EXCEPT !.it.terminated = TRUE]
    ELSE [st EXCEPT !.it = kernelAdvance(rrule, st.it)]

(***************************************************************************)
(* The patterns of the model.                                              *)
(***************************************************************************)

NoBy ==
    [BySeconds |-> <<>>, ByMinutes |-> <<>>, ByHours |-> <<>>, ByWeekdays |-> <<>>,
     ByMonthDays |-> <<>>, ByWeekNumbers |-> <<>>, ByMonths |-> <<>>,
     ByYearDays |-> <<>>, BySetPos |-> <<>>]

MakeRRule(freq, until, floating, count, dtstart, interval, by, ib, wkst) ==
    [Frequency |-> freq, Until |-> until, UntilFloating |-> floating, Count |-> count,
     Dtstart |-> dtstart, Interval |-> interval,
     BySeconds |-> by.BySeconds, ByMinutes |-> by.ByMinutes, ByHours |-> by.ByHours,
     ByWeekdays |-> by.ByWeekdays, ByMonthDays |-> by.ByMonthDays,
     ByWeekNumbers |-> by.ByWeekNumbers, ByMonths |-> by.ByMonths,
     ByYearDays |-> by.ByYearDays, BySetPos |-> by.BySetPos,
     InvalidBehavior |-> ib, WeekStart |-> wkst]

At(y, mo, d, h, mi, s, loc) == [abs |-> Date(y, mo, d, h, mi, s, loc), loc |-> loc]

\* The anchors: the corpus's `now` (a Saturday), a 31st, and a New York time
\* the day before clocks go back.
Anchors ==
    {At(2018, 8, 25, 9, 8, 7, UTC),
     At(2018, 1, 31, 0, 0, 0, UTC),
     At(2018, 11, 3, 1, 0, 0, NewYorkLoc)}

\* The corpus's `now`.
Now == At(2018, 8, 25, 9, 8, 7, UTC)

\* Anchors near the horizon: a year before its end, and its last two seconds.
LateAnchor == At(HorizonYear - 1, 12, 7, 0, 0, 0, UTC)
LastAnchor == At(HorizonYear, 12, 31, 23, 59, 58, UTC)

\* The BY-rule parts of the iterated patterns.
ByCombos ==
    {NoBy,
     [NoBy EXCEPT !.BySeconds = <<10, 10>>],
     [NoBy EXCEPT !.BySeconds = <<50, 5>>],
     [NoBy EXCEPT !.ByMinutes = <<0, 30>>],
     [NoBy EXCEPT !.ByHours = <<1, 23>>],
     [NoBy EXCEPT !.ByHours = <<1, 2, 3>>, !.BySetPos = <<1, 3, -1>>],
     [NoBy EXCEPT !.ByWeekdays = <<QWD(0, Tuesday)>>],
     [NoBy EXCEPT !.ByWeekdays = <<QWD(0, Monday), QWD(0, Friday)>>, !.ByMonths = <<8, 9>>],
     [NoBy EXCEPT !.ByWeekdays = <<QWD(1, Friday)>>],
     [NoBy EXCEPT !.ByWeekdays = <<QWD(0, Monday), QWD(0, Friday)>>,
                  !.ByHours = <<1, 23>>, !.BySetPos = <<1>>],
     [NoBy EXCEPT !.ByMonthDays = <<31, 1>>],
     [NoBy EXCEPT !.ByMonthDays = <<-1>>, !.ByWeekdays = <<QWD(0, Friday), QWD(0, Wednesday)>>],
     [NoBy EXCEPT !.ByYearDays = <<366>>],
     [NoBy EXCEPT !.ByYearDays = <<1, 366>>, !.ByHours = <<1, 23>>],
     [NoBy EXCEPT !.ByWeekNumbers = <<20>>, !.ByWeekdays = <<QWD(0, Monday)>>],
     [NoBy EXCEPT !.ByMonths = <<2, 9>>]}

\* Until, a little over two strides after the anchor.
UntilAfter(freq, dtstart, loc) ==
    LET a == dtstart.abs
        u == CASE freq = Secondly -> a + 2
               [] freq = Minutely -> a + 150
               [] freq = Hourly   -> a + 9000
               [] freq = Daily    -> a + 216000
               [] freq = Weekly   -> a + 17 * SecondsPerDay
               [] freq = Monthly  -> a + 75 * SecondsPerDay
               [] freq = Yearly   -> a + 900 * SecondsPerDay
    IN  [abs |-> u, loc |-> loc]

Frequencies == {Secondly, Minutely, Hourly, Daily, Weekly, Monthly, Yearly}

\* Only the MONTHLY and YEARLY drivers read InvalidBehavior.
PoliciesOf(freq) ==
    IF freq \in {Monthly, Yearly} THEN {OmitInvalid, NextInvalid, PrevInvalid}
    ELSE {OmitInvalid}

CountN == 3

IterPatterns ==
    UNION {
      {MakeRRule(freq, ZeroTime, FALSE, CountN, a, iv, by, ib, NilWeekStart),
       MakeRRule(freq, UntilAfter(freq, a, UTC), FALSE, 0, a, iv, by, ib, NilWeekStart)} :
         freq \in Frequencies, a \in Anchors, iv \in {0, 2}, by \in ByCombos,
         ib \in {OmitInvalid, NextInvalid, PrevInvalid}}

\* Interval negative: the cursor walks backwards.
BackwardPatterns ==
    {MakeRRule(freq, ZeroTime, FALSE, CountN, Now, -1, NoBy, OmitInvalid, NilWeekStart) :
       freq \in Frequencies}

\* UntilFloating set, Until being a time of UTC or of New York.
FloatingPatterns ==
    {MakeRRule(freq, UntilAfter(freq, a, loc), TRUE, 0, a, 0, NoBy, OmitInvalid,
               NilWeekStart) :
       freq \in Frequencies, a \in Anchors, loc \in {UTC, NewYorkLoc}}

\* Count set on patterns that run into the horizon.
HorizonPatterns ==
    {MakeRRule(freq, ZeroTime, FALSE, CountN, a, 0, NoBy, OmitInvalid, NilWeekStart) :
       freq \in Frequencies, a \in {LateAnchor, LastAnchor}}

\* New York in 2018: half an hour before the hour that clocks repeat on
\* November 4, and the day before March 11 at a time its clocks skip.
FallBackAnchor == At(2018, 11, 4, 0, 30, 0, NewYorkLoc)
SpringForwardAnchor == At(2018, 3, 10, 2, 30, 0, NewYorkLoc)

\* HOURLY and DAILY patterns across the two transitions, plain and on the
\* half hours.
DstPatterns ==
    UNION {
      {MakeRRule(freq, ZeroTime, FALSE, CountN, a, 0, by, OmitInvalid, NilWeekStart),
       MakeRRule(freq, UntilAfter(freq, a, UTC), FALSE, 0, a, 0, by, OmitInvalid,
                 NilWeekStart)} :
         freq \in {Hourly, Daily}, a \in {FallBackAnchor, SpringForwardAnchor},
         by \in {NoBy, [NoBy EXCEPT !.ByMinutes = <<0, 30>>]}}

\* Anchors on days some months lack: the corpus's August 29 2019 and the two
\* days after it, and a February 29.
LeapDayAnchors ==
    {At(2019, 8, 29, 0, 0, 0, UTC), At(2019, 8, 30, 0, 0, 0, UTC),
     At(2019, 8, 31, 0, 0, 0, UTC)}
LeapYearAnchor == At(2020, 2, 29, 0, 0, 0, UTC)

\* The corpus's "leap day monthly" patterns, every month and every six
\* months for two years, and a YEARLY pattern from February 29 for four.
LeapDayPatterns ==
    {MakeRRule(Monthly, At(2021, 9, 1, 0, 0, 0, UTC), FALSE, 0, a, iv, NoBy, ib,
               NilWeekStart) :
       a \in LeapDayAnchors, iv \in {0, 6}, ib \in {OmitInvalid, NextInvalid, PrevInvalid}}
    \cup
    {MakeRRule(Yearly, At(2024, 12, 31, 0, 0, 0, UTC), FALSE, 0, LeapYearAnchor, 0, NoBy,
               ib, NilWeekStart) :
       ib \in {OmitInvalid, NextInvalid, PrevInvalid}}

\* BYSETPOS beside a weekday expansion (WEEKLY) and beside a month-day
\* expansion (MONTHLY).
SetPosPatterns ==
    {MakeRRule(Weekly, ZeroTime, FALSE, CountN, Now, 0,
               [NoBy EXCEPT !.ByWeekdays = <<QWD(0, Monday), QWD(0, Friday)>>,
                            !.ByHours = <<1, 23>>, !.BySetPos = <<2>>],
               OmitInvalid, NilWeekStart),
     MakeRRule(Monthly, ZeroTime, FALSE, CountN, Now, 0,
               [NoBy EXCEPT !.ByMonthDays = <<10, 20>>, !.BySetPos = <<1>>],
               OmitInvalid, NilWeekStart)}

\* The corpus's "monthly setpos" and "yearly setpos": every weekday of August
\* and September, the first, third and last of them, from an anchor on the
\* 25th.
AnchorMidBatchPatterns ==
    LET EveryWeekday ==
        <<QWD(0, Monday), QWD(0, Tuesday), QWD(0, Wednesday), QWD(0, Thursday),
        QWD(0, Friday), QWD(0, Saturday), QWD(0, Sunday)>>
    IN
    {MakeRRule(freq, ZeroTime, FALSE, CountN, Now, 0,
               [NoBy EXCEPT !.ByWeekdays = EveryWeekday, !.ByMonths = <<8, 9>>,
                            !.BySetPos = <<1, 3, -1>>],
               OmitInvalid, NilWeekStart) :
       freq \in {Monthly, Yearly}}

\* YEARLY patterns with BYDAY: numbered weekdays within months, BYDAY beside
\* BYYEARDAY, and BYMONTH and BYWEEKNO together.
YearlyByDayPatterns ==
    {MakeRRule(Yearly, ZeroTime, FALSE, CountN, Now, 0, by, OmitInvalid, NilWeekStart) :
       by \in {[NoBy EXCEPT !.ByWeekdays = <<QWD(1, Friday), QWD(-1, Monday)>>,
                            !.ByMonths = <<2, 9>>],
               [NoBy EXCEPT !.ByWeekdays = <<QWD(0, Tuesday), QWD(0, Friday)>>,
                            !.ByYearDays = <<1, 100, 200>>],
               [NoBy EXCEPT !.ByWeekdays = <<QWD(0, Monday)>>, !.ByMonths = <<9>>,
                            !.ByWeekNumbers = <<20>>]}}

\* SECONDLY on the short cut from second 7: a single value equal to the
\* start's second, and values below, equal to and above it, unsorted.
SecondsPatterns ==
    {MakeRRule(Secondly, ZeroTime, FALSE, CountN, Now, iv,
               [NoBy EXCEPT !.BySeconds = secs], OmitInvalid, NilWeekStart) :
       iv \in {0, 1}, secs \in {<<7>>, <<50, 7, 5>>, <<9, 8>>}}

\* Patterns Validate turns down, one for each of its errors, and a pattern
\* with a frequency past YEARLY.
InvalidPatterns ==
    {MakeRRule(Daily, At(2018, 8, 30, 0, 0, 0, UTC), FALSE, CountN, Now, 0, NoBy,
               OmitInvalid, NilWeekStart),
     MakeRRule(Yearly + 1, ZeroTime, FALSE, CountN, Now, 0, NoBy, OmitInvalid, NilWeekStart)}
      \cup
    {MakeRRule(freq, ZeroTime, FALSE, CountN, Now, 0, by, OmitInvalid, NilWeekStart) :
       freq \in {Weekly, Yearly},
       by \in {[NoBy EXCEPT !.ByWeekdays = <<QWD(1, Friday)>>, !.ByWeekNumbers = <<20>>],
               [NoBy EXCEPT !.ByMonthDays = <<15>>, !.BySetPos = <<0>>],
               [NoBy EXCEPT !.BySetPos = <<1>>]}}

\* The pivots one iterator pulls in the model.
MaxPivots == 6

\* The patterns Validate is checked on: every frequency value and one past
\* them, Count and Until set or not, BYDAY with and without ordinals,
\* BYSETPOS in and out of range, and one numeric BY list in or out of range.
RangeCombos ==
    {NoBy,
     [NoBy EXCEPT !.BySeconds = <<59>>],     [NoBy EXCEPT !.BySeconds = <<60>>],
     [NoBy EXCEPT !.BySeconds = <<-1>>],
     [NoBy EXCEPT !.ByMinutes = <<0>>],      [NoBy EXCEPT !.ByMinutes = <<60>>],
     [NoBy EXCEPT !.ByHours = <<23>>],       [NoBy EXCEPT !.ByHours = <<24>>],
     [NoBy EXCEPT !.ByMonthDays = <<-31>>],  [NoBy EXCEPT !.ByMonthDays = <<0>>],
     [NoBy EXCEPT !.ByMonthDays = <<32>>],
     [NoBy EXCEPT !.ByYearDays = <<366>>],   [NoBy EXCEPT !.ByYearDays = <<0>>],
     [NoBy EXCEPT !.ByYearDays = <<-367>>],
     [NoBy EXCEPT !.ByWeekNumbers = <<53>>], [NoBy EXCEPT !.ByWeekNumbers = <<0>>],
     [NoBy EXCEPT !.ByWeekNumbers = <<54>>],
     [NoBy EXCEPT !.ByMonths = <<12>>],      [NoBy EXCEPT !.ByMonths = <<0>>],
     [NoBy EXCEPT !.ByMonths = <<13>>]}

ValidatePatterns ==
    {MakeRRule(freq, until, FALSE, count, Now, 0,
               [by EXCEPT !.ByWeekdays = wd, !.BySetPos = sp], OmitInvalid, NilWeekStart) :
       freq \in Secondly..(Yearly + 1),
       until \in {ZeroTime, At(2018, 8, 30, 0, 0, 0, UTC)},
       count \in {0, CountN},
       by \in RangeCombos,
       wd \in {<<>>, <<QWD(0, Tuesday)>>, <<QWD(1, Friday)>>,
               <<QWD(0, Monday), QWD(-1, Sunday)>>},
       sp \in {<<>>, <<1>>, <<-366>>, <<0>>, <<367>>, <<1, -367>>}}

VARIABLES
    rrule,     \* the pattern
    phase,     \* "new", "validated", "iter" (an iterator exists), "panic"
    verr,      \* the result of the last Validate, "unset" before
    it,        \* the iterator
    out,       \* the instants Next has returned, in order
    pivots     \* the number of pivots pulled from the driver

vars == <<rrule, phase, verr, it, out, pivots>>

NoIterator == [terminated |-> TRUE, queue |-> <<>>]

InitWith(patterns) ==
    /\ rrule \in patterns
    /\ phase = "new"
    /\ verr = "unset"
    /\ it = NoIterator
    /\ out = <<>>
    /\ pivots = 0

Init ==
    InitWith({r \in IterPatterns : r.InvalidBehavior \in PoliciesOf(r.Frequency)}
               \cup BackwardPatterns \cup FloatingPatterns \cup HorizonPatterns
               \cup InvalidPatterns \cup DstPatterns \cup LeapDayPatterns
               \cup SetPosPatterns \cup AnchorMidBatchPatterns \cup YearlyByDayPatterns
               \cup SecondsPatterns)

\* The patterns whose iteration is followed to its end.  Each one ends, if it
\* ends at all, within MaxPivots pulls: with Count, with Until, with neither
\* from an anchor near the horizon (the corpus's "end of time"), with a
\* BYMONTH that rejects every candidate, with Count and Until both (Iterator
\* panics), and with the cursor walking backwards.  The anchor near the
\* horizon is its last two seconds, and for MONTHLY, every six months, the
\* seventh of December a year before.
EndingPatterns ==
    LET NearHorizon(freq) == IF freq = Monthly THEN LateAnchor ELSE LastAnchor
        HalfYearly(freq) == IF freq = Monthly THEN 6 ELSE 0
    IN
    UNION {
      {MakeRRule(freq, ZeroTime, FALSE, CountN, Now, 0, NoBy, OmitInvalid, NilWeekStart),
       MakeRRule(freq, UntilAfter(freq, Now, UTC), FALSE, 0, Now, 0, NoBy, OmitInvalid,
                 NilWeekStart),
       MakeRRule(freq, UntilAfter(freq, Now, UTC), FALSE, 0, Now, 0,
                 [NoBy EXCEPT !.ByMonths = <<2>>], OmitInvalid, NilWeekStart),
       MakeRRule(freq, ZeroTime, FALSE, 0, NearHorizon(freq), HalfYearly(freq), NoBy,
                 OmitInvalid, NilWeekStart),
       MakeRRule(freq, ZeroTime, FALSE, CountN, NearHorizon(freq), HalfYearly(freq),
                 [NoBy EXCEPT !.ByMonths = <<2>>], OmitInvalid, NilWeekStart)} :
         freq \in Frequencies}
    \cup {MakeRRule(Yearly, ZeroTime, FALSE, 0, LateAnchor, 0, NoBy, OmitInvalid,
                    NilWeekStart)}
    \cup {r \in InvalidPatterns : r.Frequency = Daily}
    \cup BackwardPatterns

\* The steps followed on each of the two iterators.
MaxSteps == 7

\* The patterns Validate is checked on, as the caller's pattern.
InitValidate == InitWith(ValidatePatterns)

\* The caller validates the pattern.
CallValidate ==
    /\ phase = "new"
    /\ verr' = Validate(rrule)
    /\ phase' = "validated"
    /\ UNCHANGED <<rrule, it, out, pivots>>

\* The caller asks for an iterator: a panic on an invalid pattern or an
\* unknown frequency, else the frequency's driver.
CallIterator ==
    /\ phase \in {"new", "validated"}
    /\ verr' = Validate(rrule)
    /\ IF iteratorPanics(rrule)
         THEN phase' = "panic" /\ it' = it
       ELSE phase' = "iter" /\ it' = buildIterator(rrule)
    /\ UNCHANGED <<rrule, out, pivots>>

\* Next, the queue holding an instant.
NextYield ==
    /\ phase = "iter"
    /\ ~it.terminated
    /\ it.queue # <<>>
    /\ it' = kernelPop(it)
    /\ out' = IF kernelYields(it) THEN Append(out, Head(it.queue)) ELSE out
    /\ UNCHANGED <<rrule, phase, verr, pivots>>

\* Next, the queue empty: one more pivot.
NextAdvance ==
    /\ phase = "iter"
    /\ ~it.terminated
    /\ it.queue = <<>>
    /\ ~countReached(it)
    /\ pivots < MaxPivots
    /\ it' = kernelAdvance(rrule, it)
    /\ pivots' = pivots + 1
    /\ UNCHANGED <<rrule, phase, verr, out>>

\* Next, the queue empty and Count instants returned: the end.
NextEnd ==
    /\ phase = "iter"
    /\ ~it.terminated
    /\ it.queue = <<>>
    /\ countReached(it)
    /\ it' = [it EXCEPT !.terminated = TRUE]
    /\ UNCHANGED <<rrule, phase, verr, out, pivots>>

Next == CallValidate \/ CallIterator \/ NextYield \/ NextAdvance \/ NextEnd

Spec == Init /\ [][Next]_vars

\* Validate and Iterator alone, over the patterns Validate is checked on.
NextValidate == CallValidate \/ CallIterator

SpecValidate == InitValidate /\ [][NextValidate]_vars

\* Two iterators on one pattern.  it, out and pivots hold a pair each: the
\* two iterators, the instants each has returned, the steps each has taken.
\* The patterns are those from the corpus's `now` with Count set, of every
\* frequency and BY-rule part.
InitPair ==
    /\ rrule \in {r \in IterPatterns :
                    /\ r.Dtstart = Now /\ r.Interval = 0 /\ r.Count = CountN
                    /\ r.InvalidBehavior = OmitInvalid}
    /\ phase = "new"
    /\ verr = "unset"
    /\ it = <<NoIterator, NoIterator>>
    /\ out = <<<<>>, <<>>>>
    /\ pivots = <<0, 0>>

\* The caller asks for the i-th iterator, at any time after validating.
PairIterator(i) ==
    /\ phase \in {"validated", "iter"}
    /\ ~iteratorPanics(rrule)
    /\ it[i] = NoIterator
    /\ it' = [it EXCEPT ![i] = buildIterator(rrule)]
    /\ rrule' = patternAfterIterator(rrule)
    /\ phase' = "iter"
    /\ UNCHANGED <<verr, out, pivots>>

\* One step of Next on the i-th iterator; its closures read the pattern's
\* slices as they are now.
PairStep(i) ==
    /\ phase = "iter"
    /\ it[i] # NoIterator
    /\ ~it[i].terminated
    /\ pivots[i] < MaxSteps
    /\ it' = [it EXCEPT ![i] = iteratorStep(rrule, [it |-> it[i], out |-> out[i]]).it]
    /\ out' = [out EXCEPT ![i] = iteratorStep(rrule, [it |-> it[i], out |-> out[i]]).out]
    /\ pivots' = [pivots EXCEPT ![i] = pivots[i] + 1]
    /\ UNCHANGED <<rrule, phase, verr>>

NextPair ==
    \/ CallValidate
    \/ \E i \in {1, 2} : PairIterator(i)
    \/ \E i \in {1, 2} : PairStep(i)

SpecPair == InitPair /\ [][NextPair]_vars

\* The caller goes on calling Next until the iterator signals the end, as
\* All does (src/unnamed/part_000:529): a step that is possible is taken.
SpecEnding == InitWith(EndingPatterns) /\ [][Next]_vars /\ WF_vars(Next)

(***************************************************************************)
(* The properties.  `out` is what successive Next calls on the one         *)
(* iterator have returned; the properties of iteration are read in every   *)
(* state with an iterator, those of Validate in every state after a        *)
(* Validate.                                                               *)
(***************************************************************************)

Iterating == phase = "iter"

Emitted == {out[i] : i \in 1..Len(out)}

\* C1: the instants successive Next calls return are non-decreasing in
\* absolute time, also across pivot batches.  The YEARLY driver with
\* BYYEARDAY=1,366 and BYHOUR=1,23 under ROLL_FORWARD breaks it: day 366 of a
\* year of 365 days is January 1 of the next year, which the next pivot
\* expands again, from its first hour.
C1_NonDecreasing ==
    Iterating => \A i, j \in 1..Len(out) : i < j => out[i] <= out[j]

\* C2: with Count = N > 0 at most N instants are returned, and an iterator
\* that has ended returned exactly N unless the cursor passed the horizon.
C2_CountCap ==
    Iterating /\ rrule.Count > 0 =>
        /\ Len(out) <= rrule.Count
        /\ it.terminated => Len(out) = rrule.Count \/ it.current > absoluteMaxTime

\* C2, its case: Count instants were returned and the iterator ended with
\* instants still queued.
C2_Witness ==
    /\ Iterating /\ it.terminated
    /\ rrule.Count = CountN /\ Len(out) = CountN
    /\ it.queue # <<>>

\* C2, the horizon: an iterator ended short of Count with the cursor past the
\* horizon.
C2_HorizonReached ==
    /\ Iterating /\ it.terminated
    /\ rrule.Count > 0 /\ Len(out) < rrule.Count
    /\ it.current > absoluteMaxTime

\* C3: with Until set, every instant returned is at or before Until.
C3_UntilBound ==
    Iterating /\ ~IsZero(rrule.Until) => \A t \in Emitted : t <= rrule.Until.abs

\* C3, its case: an iterator with Until set returned instants and ended at a
\* pivot past Until.
C3_Witness ==
    /\ Iterating /\ it.terminated
    /\ ~IsZero(rrule.Until) /\ Len(out) > 0
    /\ it.current > rrule.Until.abs

\* C4: every instant returned is at or after Dtstart.
C4_AnchorBound ==
    Iterating => \A t \in Emitted : t >= rrule.Dtstart.abs

\* C4, its case: DAILY with BYHOUR=1,23 anchored at 09:08:07; the first pivot
\* expands to 01:08:07, before the anchor, and 23:08:07, which is the first
\* instant returned.
C4_Witness ==
    /\ Iterating
    /\ rrule.Frequency = Daily /\ rrule.ByHours = <<1, 23>> /\ rrule.Dtstart = Now
    /\ Len(out) > 0 /\ out[1] = Date(2018, 8, 25, 23, 8, 7, UTC)

\* C5: no instant is returned twice.  SECONDLY with BySeconds = 10, 10 breaks
\* it: the short cut's secondsLooper holds a step of 0 seconds, so one pivot
\* is pulled twice; and so does YEARLY with BYYEARDAY=1,366 under
\* ROLL_FORWARD, two pivots expanding to the same January 1.
C5_NoDuplicates ==
    Iterating => \A i, j \in 1..Len(out) : i < j => out[i] # out[j]

\* The limiters of each frequency's valid closure, as the axes they read.
LimiterAxes(r) ==
    CASE r.Frequency = Secondly ->
           {"second", "minute", "hour", "weekday", "monthday", "month", "week", "yearday"}
      [] r.Frequency = Minutely ->
           {"minute", "hour", "weekday", "monthday", "month", "week", "yearday"}
      [] r.Frequency = Hourly ->
           {"hour", "weekday", "monthday", "month", "week", "yearday"}
      [] r.Frequency = Daily -> {"weekday", "monthday", "month"}
      [] r.Frequency = Weekly -> {"month"}
      [] r.Frequency = Monthly ->
           IF r.ByMonthDays # <<>> THEN {"month", "weekday"} ELSE {"month"}
      [] r.Frequency = Yearly ->
           IF r.ByYearDays # <<>> \/ r.ByMonthDays # <<>> THEN {"month", "weekday"}
           ELSE {"month"}

\* v, or v counted from the end of a period of len, is listed.
Listed(list, v, len) ==
    \E i \in 1..Len(list) : list[i] = v \/ list[i] = v - len - 1

\* The field of the instant with calendar fields f and ISO week w on the
\* axis is in the pattern's list for the axis, or the list is empty.
FieldListed(r, axis, f, w) ==
    CASE axis = "second"   -> r.BySeconds = <<>> \/ \E i \in 1..Len(r.BySeconds) : r.BySeconds[i] = f.s
      [] axis = "minute"   -> r.ByMinutes = <<>> \/ \E i \in 1..Len(r.ByMinutes) : r.ByMinutes[i] = f.mi
      [] axis = "hour"     -> r.ByHours = <<>> \/ \E i \in 1..Len(r.ByHours) : r.ByHours[i] = f.h
      [] axis = "weekday"  -> r.ByWeekdays = <<>> \/ \E i \in 1..Len(r.ByWeekdays) : r.ByWeekdays[i].WD = f.wd
      [] axis = "monthday" -> r.ByMonthDays = <<>> \/ Listed(r.ByMonthDays, f.d, DaysInMonth(f.y, f.m))
      [] axis = "month"    -> r.ByMonths = <<>> \/ \E i \in 1..Len(r.ByMonths) : r.ByMonths[i] = f.m
      [] axis = "week"     -> r.ByWeekNumbers = <<>> \/ Listed(r.ByWeekNumbers, w.week, WeeksInISOYear(w.year))
      [] axis = "yearday"  -> r.ByYearDays = <<>> \/ Listed(r.ByYearDays, f.yd, DaysInYear(f.y))

\* C6: every instant returned satisfies every limiter of its frequency's
\* driver: on each axis the driver limits, the instant's own field is in the
\* pattern's list.
C6_EmittedSatisfyLimiters ==
    Iterating =>
        \A t \in Emitted : \A axis \in LimiterAxes(rrule) :
            FieldListed(rrule, axis, Fields(locOf(rrule), t), ISOWeek(Fields(locOf(rrule), t).day))

\* C6, its case: DAILY with BYDAY=TU anchored on a Saturday; three pivots
\* are turned down by the weekday limiter before Tuesday is returned.
C6_Witness ==
    /\ Iterating
    /\ rrule.Frequency = Daily /\ rrule.ByWeekdays = <<QWD(0, Tuesday)>>
    /\ rrule.Dtstart = Now
    /\ Len(out) > 0 /\ out[1] = Date(2018, 8, 28, 9, 8, 7, UTC)

\* C7: with UntilFloating set, an instant is returned only when its wall
\* clock in the anchor's location is at or before Until's wall clock.  No
\* driver reads UntilFloating; maxTime is Until's absolute instant, so with
\* Until a New York time and the anchor in UTC the instants of the hours
\* between the two wall clocks are returned.
C7_FloatingWallClock ==
    Iterating /\ rrule.UntilFloating =>
        \A t \in Emitted : Wall(locOf(rrule), t) <= Wall(rrule.Until.loc, rrule.Until.abs)

\* Validate has been called on the pattern.
Validated == verr # "unset"

\* C8: Validate returns an error for every pattern with Count non-zero and
\* Until non-zero.
C8_CountAndUntilRejected ==
    Validated /\ rrule.Count # 0 /\ rrule.Until # ZeroTime => verr # "nil"

\* C8, its case: Count and Until are both set and are the one thing wrong.
C8_Witness ==
    /\ rrule.Count # 0 /\ rrule.Until # ZeroTime
    /\ verr = ErrCountUntil

\* A BYDAY entry with a non-zero ordinal.
OrdinalEntry(r) == \E i \in 1..Len(r.ByWeekdays) : r.ByWeekdays[i].N # 0

\* C9: Validate returns an error when a BYDAY entry has a non-zero ordinal
\* and the frequency is not MONTHLY or YEARLY, and when it is YEARLY with
\* BYWEEKNO; for MONTHLY, and for YEARLY without BYWEEKNO, an ordinal is not
\* what Validate turns a pattern down for.
C9_OrdinalRules ==
    Validated /\ OrdinalEntry(rrule) =>
        /\ rrule.Frequency \notin {Monthly, Yearly} => verr # "nil"
        /\ rrule.Frequency = Yearly /\ rrule.ByWeekNumbers # <<>> => verr # "nil"
        /\ \/ rrule.Frequency = Monthly
           \/ rrule.Frequency = Yearly /\ rrule.ByWeekNumbers = <<>>
           => verr \notin {ErrOrdinalFrequency, ErrOrdinalWeekNo}

\* C9, its case: a WEEKLY pattern with BYDAY=1FR is turned down for the
\* ordinal.
C9_Witness ==
    /\ rrule.Frequency = Weekly /\ rrule.ByWeekdays = <<QWD(1, Friday)>>
    /\ verr = ErrOrdinalFrequency

\* C9, accepted: a MONTHLY pattern with BYDAY=1FR and nothing else is valid.
C9_MonthlyAccepted ==
    /\ rrule.Frequency = Monthly /\ rrule.ByWeekdays = <<QWD(1, Friday)>>
    /\ verr = "nil"

\* Some value of the list is outside lo..hi.
Outside(list, lo, hi) == \E i \in 1..Len(list) : list[i] < lo \/ list[i] > hi

\* Some value of the list is 0 or outside -n..n.
OutsideSigned(list, n) == \E i \in 1..Len(list) : list[i] = 0 \/ list[i] < -n \/ list[i] > n

\* Some numeric BY value of the pattern is outside its declared range.
SomeValueOutOfRange(r) ==
    \/ Outside(r.BySeconds, 0, 59)
    \/ Outside(r.ByMinutes, 0, 59)
    \/ Outside(r.ByHours, 0, 23)
    \/ OutsideSigned(r.ByMonthDays, 31)
    \/ OutsideSigned(r.ByYearDays, 366)
    \/ OutsideSigned(r.ByWeekNumbers, 53)
    \/ Outside(r.ByMonths, 1, 12)
    \/ OutsideSigned(r.BySetPos, 366)

\* C10: Validate returns an error for every pattern with a numeric BY value
\* outside its declared range.  Validate checks the range of BYSETPOS only:
\* DAILY with BySeconds = 60 is returned as valid.
C10_OutOfRangeRejected ==
    Validated /\ SomeValueOutOfRange(rrule) => verr # "nil"

\* C11: Validate returns an error for a frequency that is none of the seven
\* constants, so Iterator never panics on a pattern Validate returned nil
\* for.  Validate does not look at the frequency: for Frequency(7) without
\* BY-rules it returns nil, and Iterator panics in the default case of its
\* switch.
C11_UnknownFrequencyRejected ==
    Validated =>
        /\ rrule.Frequency \notin Frequencies => verr # "nil"
        /\ phase = "panic" => verr # "nil"

\* C12: Iterator on a pattern Validate turns down panics before a driver is
\* built: there is no iterator and no instant is ever returned.
C12_InvalidNeverIterates ==
    Validate(rrule) # "nil" =>
        /\ phase \in {"new", "validated", "panic"}
        /\ it = NoIterator
        /\ out = <<>>

\* C12, its case: Iterator was called on a pattern with Count and Until both
\* set, and panicked.
C12_Witness ==
    /\ phase = "panic"
    /\ verr = ErrCountUntil
    /\ it = NoIterator

\* The anchor's time of day on the date y-m-d, in the anchor's location.
AnchorTimeOn(r, y, m, d) ==
    Date(y, m, d, Fields(locOf(r), startOf(r)).h, Fields(locOf(r), startOf(r)).mi,
         Fields(locOf(r), startOf(r)).s, locOf(r))

\* What day 366 of year y comes to: December 31 in a leap year; else nothing
\* under OMIT, January 1 of the next year under ROLL_FORWARD, December 31
\* under ROLL_BACKWARD.
Day366(r, y) ==
    IF IsLeap(y) \/ r.InvalidBehavior = PrevInvalid THEN {AnchorTimeOn(r, y, 12, 31)}
    ELSE IF r.InvalidBehavior = NextInvalid THEN {AnchorTimeOn(r, y + 1, 1, 1)}
    ELSE {}

\* The years of the first n pivots of a YEARLY pattern.
PivotYears(r, n) ==
    {Fields(locOf(r), startOf(r)).y + k * intervalOf(r) : k \in 0..(n - 1)}

\* YEARLY with BYYEARDAY=366 and no other BY-rule.
OnlyYearDay366(r) ==
    /\ r.Frequency = Yearly
    /\ [b \in DOMAIN NoBy |-> r[b]] = [NoBy EXCEPT !.ByYearDays = <<366>>]

\* C13: YEARLY with BYYEARDAY=366 returns, for each pivot year, what the
\* policy makes of day 366 and nothing else: December 31 of a leap year
\* under every policy; for a year of 365 days nothing under OMIT, January 1
\* of the following year under ROLL_FORWARD, December 31 of the same year
\* under ROLL_BACKWARD (within Dtstart, Until and Count).
C13_Day366Policies ==
    Iterating /\ OnlyYearDay366(rrule) =>
        /\ Emitted \subseteq UNION {Day366(rrule, y) : y \in PivotYears(rrule, pivots)}
        /\ it.queue = <<>> =>
             \A y \in PivotYears(rrule, pivots) : \A e \in Day366(rrule, y) :
                 e >= startOf(rrule) /\ e <= timeOrMax(rrule.Until) => e \in Emitted

\* C13, its case: under ROLL_FORWARD from 2018-08-25 the pivot years 2018 and
\* 2019 give January 1 of 2019 and 2020, and the leap year 2020 December 31.
C13_Witness ==
    /\ Iterating /\ OnlyYearDay366(rrule)
    /\ rrule.InvalidBehavior = NextInvalid /\ rrule.Dtstart = Now
    /\ out = <<Date(2019, 1, 1, 9, 8, 7, UTC), Date(2020, 1, 1, 9, 8, 7, UTC),
               Date(2020, 12, 31, 9, 8, 7, UTC)>>

\* The pattern has no BY-rule and walks forward.
PlainForward(r) == [b \in DOMAIN NoBy |-> r[b]] = NoBy /\ r.Interval >= 0

\* HOURLY without BY-rules: the k-th instant is (k-1) strides of elapsed
\* hours after the anchor, whatever the clocks did.
C14_HourlyElapsed ==
    Iterating /\ rrule.Frequency = Hourly /\ PlainForward(rrule) =>
        \A k \in 1..Len(out) :
            out[k] = startOf(rrule) + (k - 1) * intervalOf(rrule) * SecondsPerHour

\* The location's clocks show the wall clock w at some instant.
WallExists(loc, w) == Wall(loc, FromWall(loc, w)) = w

\* The anchor's wall clock, n calendar days on.
AnchorWallAfterDays(r, n) == Wall(locOf(r), startOf(r)) + n * SecondsPerDay

\* DAILY without BY-rules: the k-th instant has the anchor's wall clock,
\* (k-1) strides of calendar days on, on every day whose clocks show it.
C14_DailyWallClock ==
    Iterating /\ rrule.Frequency = Daily /\ PlainForward(rrule) =>
        \A k \in 1..Len(out) :
            WallExists(locOf(rrule), AnchorWallAfterDays(rrule, (k - 1) * intervalOf(rrule))) =>
                Wall(locOf(rrule), out[k]) =
                    AnchorWallAfterDays(rrule, (k - 1) * intervalOf(rrule))

\* C14: across a daylight-saving transition an HOURLY pattern advances by
\* elapsed hours, so a wall-clock time of the repeated hour is returned once
\* for each offset, and a DAILY pattern advances by calendar days and keeps
\* the anchor's wall-clock time on both sides of the transition.
C14_DstStepping == C14_HourlyElapsed /\ C14_DailyWallClock

\* HOURLY from 00:30 on the day clocks go back: 01:30 comes twice, an hour
\* apart.
C14_RepeatedHourTwice ==
    /\ Iterating /\ rrule.Frequency = Hourly /\ PlainForward(rrule)
    /\ rrule.Dtstart = FallBackAnchor
    /\ Len(out) = 3
    /\ out[3] = out[2] + SecondsPerHour
    /\ Wall(NewYorkLoc, out[3]) = Wall(NewYorkLoc, out[2])

\* C15: for every pattern Validate accepts, each call of the driver's next
\* closure moves the pivot cursor strictly forward, on the SECONDLY BySeconds
\* short cut with repeated values and for every Interval as well.
C15_CursorStrictlyIncreases ==
    [][pivots' = pivots + 1 => it'.current > it.current]_vars

\* The day of the month of the anchor, and of an instant, in the anchor's
\* location.
AnchorDay(r) == Fields(locOf(r), startOf(r)).d
DayOf(r, t) == Fields(locOf(r), t).d

\* MONTHLY or YEARLY without BY-rules, walking forward from a day 29, 30 or 31.
PlainFromLateDay(r, freq) ==
    r.Frequency = freq /\ PlainForward(r) /\ AnchorDay(r) >= 29

\* C16: a MONTHLY pattern without BY-rules under OMIT, anchored on day 29, 30
\* or 31, returns only instants on the anchor's day of the month, for every
\* Interval from 1 up: months that lack the day are skipped.
C16_OmitKeepsAnchorDay ==
    Iterating /\ PlainFromLateDay(rrule, Monthly) /\ rrule.InvalidBehavior = OmitInvalid =>
        \A e \in Emitted : DayOf(rrule, e) = AnchorDay(rrule)

\* The part of C16 that holds: an Interval of 2 or more.
C16_OmitKeepsAnchorDayFromTwo ==
    Iterating /\ PlainFromLateDay(rrule, Monthly) /\ rrule.InvalidBehavior = OmitInvalid
              /\ intervalOf(rrule) >= 2 =>
        \A e \in Emitted : DayOf(rrule, e) = AnchorDay(rrule)

\* The first day of the month Interval months after the month of t, at the
\* time of day of t.
TargetMonth(r, t) ==
    Fields(locOf(r),
           Date(Fields(locOf(r), t).y, Fields(locOf(r), t).m + intervalOf(r), 1,
                Fields(locOf(r), t).h, Fields(locOf(r), t).mi, Fields(locOf(r), t).s,
                locOf(r)))

\* The number of days of that month.
TargetMonthLength(r, t) == DaysInMonth(TargetMonth(r, t).y, TargetMonth(r, t).m)

\* Interval months after t is a day the target month does not have.
LandsOnMissingDay(r, t) == DayOf(r, t) > TargetMonthLength(r, t)

\* Day d of the target month (d may run past its end, into the next month).
TargetMonthDay(r, t, d) ==
    Date(TargetMonth(r, t).y, TargetMonth(r, t).m, d, TargetMonth(r, t).h,
         TargetMonth(r, t).mi, TargetMonth(r, t).s, locOf(r))

\* Two instants in a row of a plain MONTHLY pattern under policy ib, the step
\* from the first landing on a missing day.
RolledStep(ib, k) ==
    /\ Iterating /\ PlainFromLateDay(rrule, Monthly) /\ rrule.InvalidBehavior = ib
    /\ k \in 1..(Len(out) - 1)
    /\ LandsOnMissingDay(rrule, out[k])

\* C17: MONTHLY under ROLL_BACKWARD: when Interval months after the pivot is
\* a day the target month does not have, the next pivot is the last day of
\* the target month, for anchor days 29, 30 and 31 alike.
C17_BackwardToLastDay ==
    \A k \in 1..Len(out) :
        RolledStep(PrevInvalid, k) =>
            out[k + 1] = TargetMonthDay(rrule, out[k], TargetMonthLength(rrule, out[k]))

\* The part of C17 that holds: the date is one day past the target month's
\* end (the 29th in a February of 28 days, the 31st in a month of 30) and
\* the Interval is 2 or more.
C17_BackwardOneDayPast ==
    \A k \in 1..Len(out) :
        /\ RolledStep(PrevInvalid, k)
        /\ DayOf(rrule, out[k]) = TargetMonthLength(rrule, out[k]) + 1
        /\ intervalOf(rrule) >= 2
        => out[k + 1] = TargetMonthDay(rrule, out[k], TargetMonthLength(rrule, out[k]))

\* C18: MONTHLY under ROLL_FORWARD: when Interval months after the pivot is
\* a day the target month does not have, the next pivot is the first day of
\* the month after the target month, for anchor days 29, 30 and 31 alike.
C18_ForwardToFirstDay ==
    \A k \in 1..Len(out) :
        RolledStep(NextInvalid, k) =>
            out[k + 1] = TargetMonthDay(rrule, out[k], TargetMonthLength(rrule, out[k]) + 1)

\* The part of C18 that holds: the date is one day past the target month's
\* end.
C18_ForwardOneDayPast ==
    \A k \in 1..Len(out) :
        /\ RolledStep(NextInvalid, k)
        /\ DayOf(rrule, out[k]) = TargetMonthLength(rrule, out[k]) + 1
        => out[k + 1] = TargetMonthDay(rrule, out[k], TargetMonthLength(rrule, out[k]) + 1)

\* The month the n-th period after the anchor's aims at: n strides of months
\* (MONTHLY) or of years (YEARLY) after the anchor's month, as its first day
\* at the anchor's time of day.
PeriodMonth(r, n) ==
    Fields(locOf(r),
           IF r.Frequency = Yearly
             THEN AnchorTimeOn(r, Fields(locOf(r), startOf(r)).y + n * intervalOf(r),
                               Fields(locOf(r), startOf(r)).m, 1)
           ELSE AnchorTimeOn(r, Fields(locOf(r), startOf(r)).y,
                             Fields(locOf(r), startOf(r)).m + n * intervalOf(r), 1))

\* That month has the anchor's day.
PeriodHasAnchorDay(r, n) ==
    AnchorDay(r) <= DaysInMonth(PeriodMonth(r, n).y, PeriodMonth(r, n).m)

\* The anchor's day and time of day in that month.
AnchorDayInPeriod(r, n) ==
    AnchorTimeOn(r, PeriodMonth(r, n).y, PeriodMonth(r, n).m, AnchorDay(r))

\* C19: MONTHLY and YEARLY patterns without BY-rules keep the anchor's day
\* over time under every policy: an instant whose target month has the
\* anchor's day falls on that day of that month.  Under the rolling policies
\* the k-th instant belongs to the k-th period; under OMIT, which skips the
\* periods lacking the day, every instant is on the anchor's day (and, for
\* YEARLY, in the anchor's month).
C19_AnchorDayKept ==
    Iterating /\ (PlainFromLateDay(rrule, Monthly) \/ PlainFromLateDay(rrule, Yearly)) =>
        IF rrule.InvalidBehavior = OmitInvalid
          THEN \A e \in Emitted :
                 /\ DayOf(rrule, e) = AnchorDay(rrule)
                 /\ rrule.Frequency = Yearly =>
                      Fields(locOf(rrule), e).m = Fields(locOf(rrule), startOf(rrule)).m
        ELSE \A k \in 1..Len(out) :
                 PeriodHasAnchorDay(rrule, k - 1) => out[k] = AnchorDayInPeriod(rrule, k - 1)

\* The part of C19 that holds: up to the first period that lacks the day.
C19_AnchorDayKeptUntilFirstRoll ==
    Iterating /\ (PlainFromLateDay(rrule, Monthly) \/ PlainFromLateDay(rrule, Yearly)) =>
        \A k \in 1..Len(out) :
            (\A j \in 0..(k - 1) : PeriodHasAnchorDay(rrule, j)) =>
                out[k] = AnchorDayInPeriod(rrule, k - 1)

\* The pattern with BYSETPOS taken out: its variations are the complete
\* batch of a pivot, every expander applied and no position selected.
WithoutSetPos(r) == [r EXCEPT !.BySetPos = <<>>]

\* BYSETPOS applied once to the complete batch of the pivot, and what the
\* limiters and the two bounds leave of the selection, in ascending order.
SelectedOnce(r, i, pivot) ==
    SortSet({c \in limitBySetPos(callVariations(WithoutSetPos(r), pivot), r.BySetPos) :
               /\ callValid(r, c)
               /\ c >= i.minTime
               /\ c <= i.maxTime})

\* A pivot has been pulled and its batch queued.
BatchQueued == pivots' = pivots + 1 /\ ~it'.terminated /\ rrule.BySetPos # <<>>

\* C20: for every frequency BYSETPOS is applied once per pivot, to the
\* pivot's complete sorted batch after all of the frequency's expanders:
\* what is queued for a pivot is the selection from that batch, so WEEKLY
\* with BYDAY and MONTHLY with BYMONTHDAY select among the expanded days.
C20_SetPosOnCompleteBatch ==
    [][BatchQueued => it'.queue = SelectedOnce(rrule, it, callNext(rrule, it).ret)]_vars

\* The part of C20 that holds: the frequencies whose variations end with
\* the selection.
C20_SetPosLastInVariations ==
    [][BatchQueued /\ rrule.Frequency \in {Minutely, Hourly, Daily, Yearly}
         => it'.queue = SelectedOnce(rrule, it, callNext(rrule, it).ret)]_vars

\* Day number `day` is a weekday the entry q names within first..last: any
\* such weekday, the q.N-th from the start, or the -q.N-th from the end.
IsNthWeekday(day, first, last, q) ==
    /\ day \in first..last
    /\ WeekdayOf(day) = q.WD
    /\ \/ q.N = 0
       \/ q.N > 0 /\ Cardinality({d \in first..day : WeekdayOf(d) = q.WD}) = q.N
       \/ q.N < 0 /\ Cardinality({d \in day..last : WeekdayOf(d) = q.WD}) = -q.N

\* Some entry of BYDAY names the day within first..last.
ByDayNames(r, day, first, last) ==
    \E i \in 1..Len(r.ByWeekdays) : IsNthWeekday(day, first, last, r.ByWeekdays[i])

\* The days of the pivot's month that BYDAY names, whichever side of the
\* anchor they lie on.
NamedDaysOfMonth(r, pivot) ==
    LET f     == Fields(locOf(r), pivot)
        first == DaysFromCivil(f.y, f.m, 1)
        last  == DaysFromCivil(f.y, f.m, DaysInMonth(f.y, f.m))
    IN  {day \in first..last : ByDayNames(r, day, first, last)}

\* The days of the candidates of the pivot's batch, BYSETPOS left out.
BatchDays(r, pivot) ==
    {Wall(locOf(r), c) \div SecondsPerDay : c \in callVariations(WithoutSetPos(r), pivot)}

\* MONTHLY expanding weekdays.
MonthlyByDay(r) ==
    r.Frequency = Monthly /\ Len(r.ByMonthDays) = 0 /\ Len(r.ByWeekdays) > 0

\* The positions BYSETPOS names in the complete batch of the pivot, the
\* candidates before the anchor counted in.
SelectedPositions(r, pivot) ==
    limitBySetPos(callVariations(WithoutSetPos(r), pivot), r.BySetPos)

\* The drivers that select from the complete batch: those whose variations
\* end with the selection, and MONTHLY expanding weekdays.
SelectsFromCompleteBatch(r) ==
    \/ r.Frequency \in {Minutely, Hourly, Daily, Yearly}
    \/ r.Frequency = Monthly /\ Len(r.ByMonthDays) = 0 /\ Len(r.ByWeekdays) > 0

\* The first pivot has been pulled and its batch queued.
FirstBatchQueued ==
    pivots = 0 /\ pivots' = 1 /\ ~it'.terminated /\ rrule.BySetPos # <<>>

\* C21: BYSETPOS positions are computed on the pivot's batch before the
\* anchor lower bound is applied: of the first pivot's batch exactly the
\* selected positions that are not before the anchor are queued, a selected
\* position before the anchor is not replaced by another candidate, and so
\* at most as many instants as BYSETPOS has entries are queued.  The batch
\* of MONTHLY expanding weekdays is every named day of the pivot's month,
\* the days before the anchor among them.
C21_SetPosBeforeAnchorFilter ==
    [][FirstBatchQueued /\ SelectsFromCompleteBatch(rrule) =>
         /\ SeqToSet(it'.queue) =
              {c \in SelectedPositions(rrule, callNext(rrule, it).ret) :
                 callValid(rrule, c) /\ c >= startOf(rrule) /\ c <= it.maxTime}
         /\ Len(it'.queue) <= Cardinality(SeqToSet(rrule.BySetPos))
         /\ MonthlyByDay(rrule) =>
               BatchDays(rrule, callNext(rrule, it).ret) =
                 NamedDaysOfMonth(rrule, callNext(rrule, it).ret)]_vars

\* C21, its case: MONTHLY on every weekday with BYSETPOS=1,3,-1 from August
\* 25: August 1 and 3 lie before the anchor, and only August 31 is queued.
C21_Witness ==
    /\ Iterating /\ rrule \in AnchorMidBatchPatterns /\ rrule.Frequency = Monthly
    /\ pivots = 1
    /\ SelectedPositions(rrule, startOf(rrule)) =
         {Date(2018, 8, 1, 9, 8, 7, UTC), Date(2018, 8, 3, 9, 8, 7, UTC),
          Date(2018, 8, 31, 9, 8, 7, UTC)}
    /\ it.queue = <<Date(2018, 8, 31, 9, 8, 7, UTC)>>

\* The listed months of year y that the BYMONTH expansion reaches from a
\* pivot on day d of its month (under ROLL_BACKWARD every listed month).
MonthsReached(r, y, d) ==
    {m \in SeqToSet(r.ByMonths) :
       d <= DaysInMonth(y, m) \/ r.InvalidBehavior = PrevInvalid}

\* The days of year y that BYDAY names within each listed month.
DaysWithinMonths(r, y, d) ==
    UNION {{day \in DaysFromCivil(y, m, 1)..DaysFromCivil(y, m, DaysInMonth(y, m)) :
              ByDayNames(r, day, DaysFromCivil(y, m, 1),
                         DaysFromCivil(y, m, DaysInMonth(y, m)))} :
             m \in MonthsReached(r, y, d)}

\* The days of the listed ISO weeks of year y that BYDAY names.
DaysWithinWeeks(r, y) ==
    {day \in (DaysFromCivil(y, 1, 1) - 7)..(DaysFromCivil(y, 12, 31) + 7) :
       /\ ISOWeek(day).year = y
       /\ \/ ISOWeek(day).week \in SeqToSet(r.ByWeekNumbers)
          \/ ISOWeek(day).week - WeeksInISOYear(y) - 1 \in SeqToSet(r.ByWeekNumbers)
       /\ \E i \in 1..Len(r.ByWeekdays) : WeekdayOf(day) = r.ByWeekdays[i].WD}

\* The days of year y that BYDAY names within the whole year.
DaysWithinYear(r, y) ==
    {day \in DaysFromCivil(y, 1, 1)..DaysFromCivil(y, 12, 31) :
       ByDayNames(r, day, DaysFromCivil(y, 1, 1), DaysFromCivil(y, 12, 31))}

\* The single scope of note 2: months, else weeks, else the year.
ScopeDays(r, y, d) ==
    IF Len(r.ByMonths) # 0 THEN DaysWithinMonths(r, y, d)
    ELSE IF Len(r.ByWeekNumbers) # 0 THEN DaysWithinWeeks(r, y)
    ELSE DaysWithinYear(r, y)

\* The days of the candidates of the pivot that pass the valid closure,
\* BYSETPOS left out.
CandidateDays(r, pivot) ==
    {Wall(locOf(r), c) \div SecondsPerDay :
       c \in {v \in callVariations(WithoutSetPos(r), pivot) : callValid(r, v)}}

\* BYDAY only limits: ByYearDays or ByMonthDays is set.
ByDayLimits(r) == Len(r.ByYearDays) > 0 \/ Len(r.ByMonthDays) > 0

WithoutWeekdays(r) == [r EXCEPT !.ByWeekdays = <<>>]

\* A pivot of a YEARLY pattern with BYDAY has been pulled.
YearlyByDayPivot ==
    pivots' = pivots + 1 /\ rrule.Frequency = Yearly /\ Len(rrule.ByWeekdays) > 0

PlainSecondlyUpTo(r, t) ==
    {u \in startOf(r)..t : secondlyValid(r, u) /\ u <= timeOrMax(r.Until)}

\* The k-th instant returned is the k-th the plain driver returns.
MatchesPlainSecondly(r, k) ==
    /\ out[k] \in PlainSecondlyUpTo(r, out[k])
    /\ Cardinality(PlainSecondlyUpTo(r, out[k])) = k

\* C23: the SECONDLY short cut (Interval 1 and BySeconds set) returns the
\* same sequence of instants as the plain one-second stride with the same
\* limiters, for every start second and every BySeconds list.
C23_ShortCutMatchesPlain ==
    Iterating /\ rrule.Frequency = Secondly /\ secondlyFast(rrule) =>
        \A k \in 1..Len(out) : MatchesPlainSecondly(rrule, k)

\* The part of C23 that holds: BySeconds without a repeated value.
C23_ShortCutMatchesPlainNoRepeat ==
    Iterating /\ rrule.Frequency = Secondly /\ secondlyFast(rrule)
              /\ Cardinality(SeqToSet(rrule.BySeconds)) = Len(rrule.BySeconds) =>
        \A k \in 1..Len(out) : MatchesPlainSecondly(rrule, k)

\* The pull of a pivot has ended the iteration: the pivot lies beyond Until
\* (or the horizon).
EndedByPivot == pivots' = pivots + 1 /\ it'.terminated

\* C24: no matching instant is lost to early termination: every instant
\* that comes of expanding, filtering and selecting some pivot and lies in
\* [Dtstart, Until] is returned, also when its pivot is later than Until; so
\* the pivot whose pull ends the iteration has no such instant in its batch.
C24_NothingLostAtEnd ==
    [][EndedByPivot => survivors(rrule, it, callNext(rrule, it).ret) = <<>>]_vars

\* The part of C24 that holds: a pattern without BY-rules, whose batch is
\* the pivot itself.
C24_NothingLostWithoutBy ==
    [][EndedByPivot /\ PlainForward(rrule) =>
         survivors(rrule, it, callNext(rrule, it).ret) = <<>>]_vars

\* The iteration is over: the iterator has signalled the end, or Iterator
\* panicked and there is none.
Ended == phase = "panic" \/ (phase = "iter" /\ it.terminated)

C25_ForwardIterationEnds == rrule.Interval >= 0 => <>Ended

\* With neither Count nor Until, no instant returned lies beyond the
\* horizon.
C25_NothingBeyondHorizon ==
    Iterating => \A t \in Emitted : t <= absoluteMaxTime

\* An iterator built from r and stepped n times with no other iterator
\* about, and the instants it has returned.
RECURSIVE SteppedAlone(_, _)
SteppedAlone(r, n) ==
    IF n = 0 THEN [it |-> buildIterator(r), out |-> <<>>]
    ELSE iteratorStep(r, SteppedAlone(r, n - 1))

\* The i-th of the two iterators is where it would be alone.
AsAlone(i) ==
    IF it[i] = NoIterator THEN out[i] = <<>> /\ pivots[i] = 0
    ELSE [it |-> it[i], out |-> out[i]] = SteppedAlone(rrule, pivots[i])

====
